---- MODULE Spec2Model ----
(***************************************************************************)
(* Model of pkg/crawler/crawl.go: the two-phase crawl of AsyncCrawl, the   *)
(* statistics folded by updateCrawlStats and combined by MergeCrawlStats,  *)
(* the link expansion of crawlLinks and the interrupt handlers installed   *)
(* by addInterruptHandlers.  The HTTP fetcher (ConcurrentHTTPGet) is an    *)
(* external collaborator: it is modelled by its streaming interface.       *)
(***************************************************************************)
EXTENDS Integers, Sequences, FiniteSets, TLC

VARIABLES
    pc,                     \* position of the modelled call
    urls,                   \* AsyncCrawl: the seed URLs
    config,                 \* AsyncCrawl: its CrawlConfig (by value)
    results,                \* AsyncCrawl: responses of the first pass
    stats,                  \* AsyncCrawl: stats (first pass, then merged)
    server200TimeSum,       \* AsyncCrawl: sum of the 200 server times
    stopped,                \* AsyncCrawl: named result
    err,                    \* AsyncCrawl: named result
    linkedUrlsSet,          \* crawlLinks: target -> linking URLs
    linkedUrls,             \* crawlLinks: URLs of the second pass
    linksResults,           \* crawlLinks: responses of the second pass
    linksStats,             \* crawlLinks: stats of the second pass
    linksServer200TimeSum,  \* crawlLinks: 200 time sum of the second pass
    calls,                  \* the calls of crawlUrls so far: urls, config
    pending,                \* fetcher: indexes of the URLs not attempted yet
    quitSeen,               \* fetcher: it received from its quit channel
    sent,                   \* fetcher: the outcomes streamed, per pass
    handler,                \* per pass: the interrupt goroutine's position
    fired,                  \* per pass: values sent on the stop channel
    signals,                \* OS notifications delivered so far
    statsA, statsB,         \* operands of a direct MergeCrawlStats call
    merged                  \* its outcome

vars == <<pc, urls, config, results, stats, server200TimeSum, stopped, err,
          linkedUrlsSet, linkedUrls, linksResults, linksStats,
          linksServer200TimeSum, calls, pending, quitSeen, sent, handler,
          fired, signals, statsA, statsB, merged>>

crawlVars == <<urls, config, results, stats, server200TimeSum, stopped, err,
               linkedUrlsSet, linkedUrls, linksResults, linksStats,
               linksServer200TimeSum, calls, pending, quitSeen, sent, handler,
               fired, signals>>

mergeVars == <<statsA, statsB, merged>>

-----------------------------------------------------------------------------
(* Bounds *)

MaxUrls == 1        \* longest seed list
MaxTime == 1        \* largest server time of a response
MaxLinks == 2       \* links the link-varied fetcher attaches over one crawl
MaxSignals == 2     \* OS notifications delivered to the process
MaxCount == 2       \* largest 200-count of a merge operand
MaxAverage == 2     \* largest Average200Time of a merge operand
MaxOutcomes == 2    \* outcomes of a pass whose arrival order is varied

-----------------------------------------------------------------------------
(* Values *)

StatusOK == 200
DefaultThrottle == 1

Hyperlink == "Hyperlink"
Image == "Image"
LinkTypes == {Hyperlink, Image}

CrawledHost == "h"
OtherHost == "x"

\* A parsed url.URL, and the text url.URL.String() gives for it.
TargetURLs == {[Host |-> CrawledHost, Path |-> "/a"],
               [Host |-> OtherHost, Path |-> "/c"]}
URLString(u) == u.Host \o u.Path

SeedURLs == {"h/a", "h/b"}
ThrottleValues == {0, 2}
StatusCodeValues == {StatusOK, 404}
SignalKinds == {"SIGINT", "SIGTERM"}

Passes == {1, 2}

Range(s) == {s[i] : i \in DOMAIN s}

SeqsUpTo(S, n) == UNION {[1..k -> S] : k \in 0..n}

RECURSIVE Perms(_)
Perms(S) ==
    IF S = {} THEN {<<>>}
    ELSE UNION {{<<x>> \o p : p \in Perms(S \ {x})} : x \in S}

\* Go's integer division truncates toward zero.
Quo(a, b) ==
    IF (a >= 0) = (b > 0) \/ a = 0
    THEN (IF a >= 0 THEN a ELSE -a) \div (IF b > 0 THEN b ELSE -b)
    ELSE -((IF a >= 0 THEN a ELSE -a) \div (IF b > 0 THEN b ELSE -b))

-----------------------------------------------------------------------------
(* map[int]int: a nil map reads as an empty one *)

NilMap == [isNil |-> TRUE, kv |-> <<>>]
MakeMap == [isNil |-> FALSE, kv |-> <<>>]

MapGet(m, k) == IF k \in DOMAIN m.kv THEN m.kv[k] ELSE 0

MapSet(m, k, v) ==
    [isNil |-> FALSE,
     kv |-> [x \in (DOMAIN m.kv) \cup {k} |-> IF x = k THEN v ELSE m.kv[x]]]

RECURSIVE SumOver(_, _)
SumOver(f, D) ==
    IF D = {} THEN 0
    ELSE LET k == CHOOSE x \in D : TRUE IN f[k] + SumOver(f, D \ {k})

MapSum(m) == SumOver(m.kv, DOMAIN m.kv)

-----------------------------------------------------------------------------
(* CrawlStats and CrawlResult *)

ZeroStats ==
    [Total |-> 0, StatusCodes |-> NilMap, Average200Time |-> 0,
     Max200Time |-> 0, Non200Urls |-> <<>>]

NewCrawlResult(url, time, code) ==
    [URL |-> url, StatusCode |-> code, Time |-> time, LinkingURLs |-> <<>>]

\* range over src: dst[key] = dst[key] + value
RECURSIVE AddMap(_, _, _)
AddMap(dst, src, D) ==
    IF D = {} THEN dst
    ELSE LET key == CHOOSE x \in D : TRUE IN
         AddMap(MapSet(dst, key, MapGet(dst, key) + src.kv[key]), src,
                D \ {key})

MergedStatusCodes(a, b) ==
    LET withA == IF ~a.StatusCodes.isNil
                 THEN AddMap(MakeMap, a.StatusCodes, DOMAIN a.StatusCodes.kv)
                 ELSE MakeMap
    IN IF ~b.StatusCodes.isNil
       THEN AddMap(withA, b.StatusCodes, DOMAIN b.StatusCodes.kv)
       ELSE withA

\* The division of line 74 panics when the merged 200-count is zero.
MergePanics(a, b) ==
    /\ a.Average200Time # 0 \/ b.Average200Time # 0
    /\ MapGet(MergedStatusCodes(a, b), StatusOK) = 0

\* Mutants of MergeCrawlStats: the lists appended in the other order, the
\* average not weighted by the 200-counts, the first 200-count used twice.
MergeCrawlStatsSwapped(a, b) ==
    LET codes == MergedStatusCodes(a, b)
        total200ns == a.Average200Time * MapGet(a.StatusCodes, StatusOK)
                      + b.Average200Time * MapGet(b.StatusCodes, StatusOK)
    IN [Total |-> a.Total + b.Total,
        Max200Time |-> IF a.Max200Time > b.Max200Time
                       THEN a.Max200Time ELSE b.Max200Time,
        StatusCodes |-> codes,
        Average200Time |->
            IF a.Average200Time # 0 \/ b.Average200Time # 0
            THEN Quo(total200ns, MapGet(codes, StatusOK))
            ELSE 0,
        Non200Urls |-> b.Non200Urls \o a.Non200Urls]

MergeCrawlStatsUnweighted(a, b) ==
    LET codes == MergedStatusCodes(a, b)
        total200ns == a.Average200Time + b.Average200Time
    IN [Total |-> a.Total + b.Total,
        Max200Time |-> IF a.Max200Time > b.Max200Time
                       THEN a.Max200Time ELSE b.Max200Time,
        StatusCodes |-> codes,
        Average200Time |->
            IF a.Average200Time # 0 \/ b.Average200Time # 0
            THEN Quo(total200ns, MapGet(codes, StatusOK))
            ELSE 0,
        Non200Urls |-> a.Non200Urls \o b.Non200Urls]

MergeCrawlStatsFirstCount(a, b) ==
    LET codes == MergedStatusCodes(a, b)
        total200ns == a.Average200Time * MapGet(a.StatusCodes, StatusOK)
                      + b.Average200Time * MapGet(a.StatusCodes, StatusOK)
    IN [Total |-> a.Total + b.Total,
        Max200Time |-> IF a.Max200Time > b.Max200Time
                       THEN a.Max200Time ELSE b.Max200Time,
        StatusCodes |-> codes,
        Average200Time |->
            IF a.Average200Time # 0 \/ b.Average200Time # 0
            THEN Quo(total200ns, MapGet(codes, StatusOK))
            ELSE 0,
        Non200Urls |-> a.Non200Urls \o b.Non200Urls]

MergeCrawlStats(a, b) ==
    LET codes == MergedStatusCodes(a, b)
        total200ns == a.Average200Time * MapGet(a.StatusCodes, StatusOK)
                      + b.Average200Time * MapGet(b.StatusCodes, StatusOK)
    IN [Total |-> a.Total + b.Total,
        Max200Time |-> IF a.Max200Time > b.Max200Time
                       THEN a.Max200Time ELSE b.Max200Time,
        StatusCodes |-> codes,
        Average200Time |->
            IF a.Average200Time # 0 \/ b.Average200Time # 0
            THEN Quo(total200ns, MapGet(codes, StatusOK))
            ELSE 0,
        Non200Urls |-> a.Non200Urls \o b.Non200Urls]

ServerTime(result) ==
    IF result.Result # <<>> THEN result.Result[1] ELSE 0

\* Mutant of UpdatedStats: Total counts the 200 responses only.
UpdatedStatsTotal200(result, st) ==
    LET counted == [st EXCEPT
                      !.StatusCodes =
                          MapSet(@, result.StatusCode,
                                 MapGet(@, result.StatusCode) + 1)]
    IN IF result.StatusCode = StatusOK
       THEN [counted EXCEPT
               !.Total = @ + 1,
               !.Max200Time = IF ServerTime(result) > @
                              THEN ServerTime(result) ELSE @]
       ELSE [counted EXCEPT
               !.Non200Urls =
                   Append(@, NewCrawlResult(result.URL, ServerTime(result),
                                            result.StatusCode))]

\* Mutant of UpdatedStats: a non-200 response is put first in the list.
UpdatedStatsPrepend(result, st) ==
    LET counted == [st EXCEPT
                      !.Total = @ + 1,
                      !.StatusCodes =
                          MapSet(@, result.StatusCode,
                                 MapGet(@, result.StatusCode) + 1)]
    IN IF result.StatusCode = StatusOK
       THEN [counted EXCEPT
               !.Max200Time = IF ServerTime(result) > @
                              THEN ServerTime(result) ELSE @]
       ELSE [counted EXCEPT
               !.Non200Urls =
                   <<NewCrawlResult(result.URL, ServerTime(result),
                                    result.StatusCode)>> \o @]

\* Mutant of UpdatedStats: the largest 200 time is also kept as the average.
UpdatedStatsAveraged(result, st) ==
    LET counted == [st EXCEPT
                      !.Total = @ + 1,
                      !.StatusCodes =
                          MapSet(@, result.StatusCode,
                                 MapGet(@, result.StatusCode) + 1)]
    IN IF result.StatusCode = StatusOK
       THEN [counted EXCEPT
               !.Max200Time = IF ServerTime(result) > @
                              THEN ServerTime(result) ELSE @,
               !.Average200Time = IF ServerTime(result) > @
                                  THEN ServerTime(result) ELSE @]
       ELSE [counted EXCEPT
               !.Non200Urls =
                   Append(@, NewCrawlResult(result.URL, ServerTime(result),
                                            result.StatusCode))]

\* Mutant of UpdatedStats: Max200Time is the time of the latest 200.
UpdatedStatsLatest(result, st) ==
    LET counted == [st EXCEPT
                      !.Total = @ + 1,
                      !.StatusCodes =
                          MapSet(@, result.StatusCode,
                                 MapGet(@, result.StatusCode) + 1)]
    IN IF result.StatusCode = StatusOK
       THEN [counted EXCEPT !.Max200Time = ServerTime(result)]
       ELSE [counted EXCEPT
               !.Non200Urls =
                   Append(@, NewCrawlResult(result.URL, ServerTime(result),
                                            result.StatusCode))]

\* updateCrawlStats: the stats and the 200 time sum after folding result.
UpdatedStats(result, st) ==
    LET counted == [st EXCEPT
                      !.Total = @ + 1,
                      !.StatusCodes =
                          MapSet(@, result.StatusCode,
                                 MapGet(@, result.StatusCode) + 1)]
    IN IF result.StatusCode = StatusOK
       THEN [counted EXCEPT
               !.Max200Time = IF ServerTime(result) > @
                              THEN ServerTime(result) ELSE @]
       ELSE [counted EXCEPT
               !.Non200Urls =
                   Append(@, NewCrawlResult(result.URL, ServerTime(result),
                                            result.StatusCode))]

\* Mutant of UpdatedTimeSum: the time of every response is added.
UpdatedTimeSumAll(result, total200Time) ==
    total200Time + ServerTime(result)

UpdatedTimeSum(result, total200Time) ==
    IF result.StatusCode = StatusOK
    THEN total200Time + ServerTime(result)
    ELSE total200Time

-----------------------------------------------------------------------------
(* crawlLinks: the link expansion *)

LinkAccepted(link, links) ==
    /\ ~(link.IsExternal /\ ~links.CrawlExternalLinks)
    /\ ~(link.Type = Hyperlink /\ ~links.CrawlHyperlinks)
    /\ ~(link.Type = Image /\ ~links.CrawlImages)

\* map[string][]string: an absent key reads as the nil slice
LinkingGet(set, url) == IF url \in DOMAIN set THEN set[url] ELSE <<>>

\* Mutant of LinkingAppend: the entry is replaced instead of extended.
LinkingAppendOverwrite(set, target, url) ==
    [t \in (DOMAIN set) \cup {target} |->
        IF t = target THEN <<url>> ELSE set[t]]

LinkingAppend(set, target, url) ==
    [t \in (DOMAIN set) \cup {target} |->
        IF t = target THEN Append(LinkingGet(set, target), url) ELSE set[t]]

\* the inner loop over result.Links, from link number i on
RECURSIVE ScanLinks(_, _, _, _)
ScanLinks(set, result, i, links) ==
    IF i > Len(result.Links) THEN set
    ELSE LET link == result.Links[i] IN
         IF LinkAccepted(link, links)
         THEN ScanLinks(LinkingAppend(set, URLString(link.TargetURL),
                                      result.URL),
                        result, i + 1, links)
         ELSE ScanLinks(set, result, i + 1, links)

\* the outer loop over sourceResults, from result number r on
RECURSIVE ScanResults(_, _, _, _)
ScanResults(set, sourceResults, r, links) ==
    IF r > Len(sourceResults) THEN set
    ELSE ScanResults(ScanLinks(set, sourceResults[r], 1, links),
                     sourceResults, r + 1, links)

\* Mutant of DeleteCrawled: the last source URL is not deleted.
DeleteCrawledButLast(set, sourceURLs) ==
    [t \in (DOMAIN set) \ {sourceURLs[i] : i \in 1..(Len(sourceURLs) - 1)} |->
        set[t]]

\* delete(linkedUrlsSet, alreadyCrawledURL) for every source URL
DeleteCrawled(set, sourceURLs) ==
    [t \in (DOMAIN set) \ Range(sourceURLs) |-> set[t]]

LinkedUrlsSet(sourceResults, sourceURLs, sourceConfig) ==
    DeleteCrawled(ScanResults(<<>>, sourceResults, 1, sourceConfig.Links),
                  sourceURLs)

\* Mutant of LinksConfig: the flags are cleared, ParseLinks is kept.
LinksConfigParsing(sourceConfig) ==
    [sourceConfig EXCEPT
        !.Links = [CrawlExternalLinks |-> FALSE, CrawlImages |-> FALSE,
                   CrawlHyperlinks |-> FALSE]]

LinksConfig(sourceConfig) ==
    [sourceConfig EXCEPT
        !.HTTP.ParseLinks = FALSE,
        !.Links = [CrawlExternalLinks |-> FALSE, CrawlImages |-> FALSE,
                   CrawlHyperlinks |-> FALSE]]

\* the loop over linksStats.Non200Urls after the second pass
WithLinkingURLs(st, set) ==
    [st EXCEPT !.Non200Urls =
        [i \in DOMAIN st.Non200Urls |->
            [st.Non200Urls[i] EXCEPT
                !.LinkingURLs = LinkingGet(set, st.Non200Urls[i].URL)]]]

-----------------------------------------------------------------------------
(* AsyncCrawl: the end of the call *)

\* Mutant of ClampedThrottle: only a negative throttle is replaced.
ClampedThrottleNegative(throttle) ==
    IF throttle < 0 THEN DefaultThrottle ELSE throttle

ClampedThrottle(throttle) ==
    IF throttle <= 0 THEN DefaultThrottle ELSE throttle

ParseLinksOf(links) ==
    links.CrawlExternalLinks \/ links.CrawlHyperlinks \/ links.CrawlImages

FinalStats(st, timeSum) ==
    LET total200 == MapGet(st.StatusCodes, StatusOK) IN
    IF total200 > 0
    THEN [st EXCEPT !.Average200Time = Quo(timeSum, total200)]
    ELSE st

ErrNil == "nil"
ErrNoURLCrawled == "No URL crawled"
ErrNon200 == "Some URLs had a different status code than 200"

\* Mutant of FinalErr: the total is not tested for zero.
FinalErrNoZeroTest(st) ==
    IF st.Total # MapGet(st.StatusCodes, StatusOK) THEN ErrNon200
    ELSE ErrNil

FinalErr(st) ==
    IF st.Total = 0 THEN ErrNoURLCrawled
    ELSE IF st.Total # MapGet(st.StatusCodes, StatusOK) THEN ErrNon200
    ELSE ErrNil

-----------------------------------------------------------------------------
(* The fetcher: ConcurrentHTTPGet(urls, config.HTTP, config.Throttle, quit) *)

ResultValues == {<<>>} \cup {<<t>> : t \in 1..MaxTime}

LinkTo(u, t) ==
    [TargetURL |-> u, Type |-> t, IsExternal |-> u.Host # CrawledHost]

PageLinks == {LinkTo(u, t) : u \in TargetURLs, t \in LinkTypes}

RECURSIVE LinksAttached(_)
LinksAttached(rs) ==
    IF rs = <<>> THEN 0 ELSE Len(Head(rs).Links) + LinksAttached(Tail(rs))

\* A page with at most one link, of two kinds.
FewLinks ==
    {<<>>,
     <<LinkTo([Host |-> CrawledHost, Path |-> "/a"], Hyperlink)>>,
     <<LinkTo([Host |-> OtherHost, Path |-> "/c"], Image)>>}

\* A page with any links, MaxLinks of them over the pages of one crawl.
ManyLinks(already) == SeqsUpTo(PageLinks, MaxLinks - LinksAttached(already))

\* The outcomes the fetcher can stream for URL number i of its call: links
\* are attached only when the call asked for them.
FetchOutcomes(call, i, codes, times, linkSeqs) ==
    [URL : {call.urls[i]},
     StatusCode : codes,
     Result : times,
     Links : IF call.config.HTTP.ParseLinks THEN linkSeqs ELSE {<<>>}]

-----------------------------------------------------------------------------
(* Initial states *)

LinkFlags ==
    [CrawlExternalLinks : BOOLEAN, CrawlHyperlinks : BOOLEAN,
     CrawlImages : BOOLEAN]

Configs(throttles) ==
    [Throttle : throttles, HTTP : [ParseLinks : {FALSE}], Links : LinkFlags]

NoMerge ==
    /\ statsA = ZeroStats
    /\ statsB = ZeroStats
    /\ merged = ZeroStats

\* The locals and results of AsyncCrawl at their zero values, no fetcher, no
\* interrupt handler.
NothingCrawled ==
    /\ results = <<>>
    /\ stats = ZeroStats
    /\ server200TimeSum = 0
    /\ stopped = FALSE
    /\ err = ErrNil
    /\ linkedUrlsSet = <<>>
    /\ linkedUrls = <<>>
    /\ linksResults = <<>>
    /\ linksStats = ZeroStats
    /\ linksServer200TimeSum = 0
    /\ calls = <<>>
    /\ pending = {}
    /\ quitSeen = FALSE
    /\ sent = [p \in Passes |-> <<>>]
    /\ handler = [p \in Passes |-> "none"]
    /\ fired = [p \in Passes |-> 0]
    /\ signals = 0

\* AsyncCrawl(urls, config) has just been called.
CrawlCalled(throttles) ==
    /\ pc = "start"
    /\ urls \in SeqsUpTo(SeedURLs, MaxUrls)
    /\ config \in Configs(throttles)
    /\ NothingCrawled

Init == CrawlCalled(ThrottleValues) /\ NoMerge

-----------------------------------------------------------------------------
(* crawlUrls *)

\* addInterruptHandlers: a fresh stop channel and a goroutine waiting for
\* the OS notification.
AddInterruptHandlers(p) ==
    /\ handler' = [handler EXCEPT ![p] = "waiting"]
    /\ fired' = [fired EXCEPT ![p] = 0]

\* crawlUrls up to its loop: the handlers, the fetcher call.
CrawlUrlsCalled(p, us, cfg) ==
    /\ AddInterruptHandlers(p)
    /\ calls' = Append(calls, [urls |-> us, config |-> cfg])
    /\ pending' = DOMAIN us
    /\ quitSeen' = FALSE

FreshStats == [ZeroStats EXCEPT !.StatusCodes = MakeMap]

Pass == IF pc = "crawl1" THEN 1 ELSE 2

\* The fetcher closes its stream: every URL attempted, or quit observed.
StreamClosed == pending = {} \/ quitSeen

\* Mutant of RangeEnds: the loop ends only once quit has been observed.
RangeEndsOnQuit == quitSeen

\* for result := range resultsChan ends when the channel is closed.
RangeEnds == StreamClosed

\* One iteration of the loop of crawlUrls: a result arrives on resultsChan.
ReceiveResult(codes, times, linkSeqs) ==
    /\ pc \in {"crawl1", "crawl2"}
    /\ ~quitSeen
    /\ \E i \in pending :
       \E result \in FetchOutcomes(calls[Pass], i, codes, times, linkSeqs) :
          /\ pending' = pending \ {i}
          /\ sent' = [sent EXCEPT ![Pass] = Append(@, result)]
          /\ IF pc = "crawl1"
             THEN /\ stats' = UpdatedStats(result, stats)
                  /\ server200TimeSum' = UpdatedTimeSum(result, server200TimeSum)
                  /\ results' = Append(results, result)
                  /\ UNCHANGED <<linksStats, linksServer200TimeSum,
                                 linksResults>>
             ELSE /\ linksStats' = UpdatedStats(result, linksStats)
                  /\ linksServer200TimeSum' =
                         UpdatedTimeSum(result, linksServer200TimeSum)
                  /\ linksResults' = Append(linksResults, result)
                  /\ UNCHANGED <<stats, server200TimeSum, results>>
    /\ UNCHANGED <<pc, urls, config, stopped, err, linkedUrlsSet, linkedUrls,
                   calls, quitSeen, handler, fired, signals>>
    /\ UNCHANGED mergeVars

-----------------------------------------------------------------------------
(* AsyncCrawl *)

\* AsyncCrawl from its entry to the loop of the first crawlUrls.
AsyncCrawlStart ==
    /\ pc = "start"
    /\ LET cfg == [config EXCEPT
                     !.Throttle = ClampedThrottle(@),
                     !.HTTP.ParseLinks = ParseLinksOf(config.Links)]
       IN /\ config' = cfg
          /\ CrawlUrlsCalled(1, urls, cfg)
    /\ stats' = FreshStats
    /\ pc' = "crawl1"
    /\ UNCHANGED <<urls, results, server200TimeSum, stopped, err,
                   linkedUrlsSet, linkedUrls, linksResults, linksStats,
                   linksServer200TimeSum, sent, signals>>
    /\ UNCHANGED mergeVars

\* The end of AsyncCrawl: the average, the error, the return.
AsyncCrawlReturn(st, timeSum) ==
    /\ stats' = FinalStats(st, timeSum)
    /\ server200TimeSum' = timeSum
    /\ err' = FinalErr(FinalStats(st, timeSum))
    /\ pc' = "done"

\* The first stream closes and no link is followed.
FinishWithoutLinks ==
    /\ pc = "crawl1"
    /\ RangeEnds
    /\ ~config.HTTP.ParseLinks
    /\ AsyncCrawlReturn(stats, server200TimeSum)
    /\ UNCHANGED <<urls, config, results, stopped, linkedUrlsSet, linkedUrls,
                   linksResults, linksStats, linksServer200TimeSum, calls,
                   pending, quitSeen, sent, handler, fired, signals>>
    /\ UNCHANGED mergeVars

\* The first stream closes and crawlLinks runs up to the loop of the second
\* crawlUrls; the range over the map gives the URLs in any order.
CrawlLinksStart ==
    /\ pc = "crawl1"
    /\ RangeEnds
    /\ config.HTTP.ParseLinks
    /\ LET set == LinkedUrlsSet(results, urls, config) IN
       /\ linkedUrlsSet' = set
       /\ \E order \in Perms(DOMAIN set) :
             /\ linkedUrls' = order
             /\ CrawlUrlsCalled(2, order, LinksConfig(config))
    /\ linksStats' = FreshStats
    /\ pc' = "crawl2"
    /\ UNCHANGED <<urls, config, results, stats, server200TimeSum, stopped,
                   err, linksResults, linksServer200TimeSum, sent, signals>>
    /\ UNCHANGED mergeVars

\* The second stream closes: the rest of crawlLinks, the merge, the return.
FinishWithLinks ==
    /\ pc = "crawl2"
    /\ RangeEnds
    /\ LET annotated == WithLinkingURLs(linksStats, linkedUrlsSet) IN
       /\ linksStats' = annotated
       /\ IF MergePanics(stats, annotated)
          THEN /\ pc' = "panic"
               /\ UNCHANGED <<stats, server200TimeSum, err>>
          ELSE AsyncCrawlReturn(MergeCrawlStats(stats, annotated),
                                server200TimeSum + linksServer200TimeSum)
    /\ UNCHANGED <<urls, config, results, stopped, linkedUrlsSet, linkedUrls,
                   linksResults, linksServer200TimeSum, calls, pending,
                   quitSeen, sent, handler, fired, signals>>
    /\ UNCHANGED mergeVars

-----------------------------------------------------------------------------
(* Interrupts *)

\* Mutant of Notified: the goroutine receives again after its send.
NotifiedAgain(h) == IF h \in {"waiting", "done"} THEN "sending" ELSE h

\* <-osSignal: a goroutine waiting for the notification takes it and goes on
\* to its send; a goroutine past its receive takes no other.
Notified(h) == IF h = "waiting" THEN "sending" ELSE h

\* An interrupt or terminate notification: signal.Notify hands it to every
\* registered channel whose goroutine is receiving.
Signal ==
    /\ pc \in {"crawl1", "crawl2", "done"}
    /\ signals < MaxSignals
    /\ \E kind \in SignalKinds :
          handler' = [p \in Passes |-> Notified(handler[p])]
    /\ signals' = signals + 1
    /\ UNCHANGED <<pc, urls, config, results, stats, server200TimeSum,
                   stopped, err, linkedUrlsSet, linkedUrls, linksResults,
                   linksStats, linksServer200TimeSum, calls, pending,
                   quitSeen, sent, fired>>
    /\ UNCHANGED mergeVars

\* stop <- struct{}{} of the goroutine meets the fetcher's receive on quit.
QuitReceived ==
    /\ pc \in {"crawl1", "crawl2"}
    /\ handler[Pass] = "sending"
    /\ handler' = [handler EXCEPT ![Pass] = "done"]
    /\ fired' = [fired EXCEPT ![Pass] = @ + 1]
    /\ quitSeen' = TRUE
    /\ UNCHANGED <<pc, urls, config, results, stats, server200TimeSum,
                   stopped, err, linkedUrlsSet, linkedUrls, linksResults,
                   linksStats, linksServer200TimeSum, calls, pending, sent,
                   signals>>
    /\ UNCHANGED mergeVars

Next ==
    \/ AsyncCrawlStart
    \/ ReceiveResult(StatusCodeValues, ResultValues, FewLinks)
    \/ FinishWithoutLinks
    \/ CrawlLinksStart
    \/ FinishWithLinks
    \/ Signal
    \/ QuitReceived

Spec == Init /\ [][Next]_vars

-----------------------------------------------------------------------------
(* The same crawl with a fetcher that varies the links instead of the times *)

InitLinks == CrawlCalled({DefaultThrottle}) /\ NoMerge

NextLinks ==
    \/ AsyncCrawlStart
    \/ ReceiveResult(StatusCodeValues, {<<>>}, ManyLinks(sent[1]))
    \/ FinishWithoutLinks
    \/ CrawlLinksStart
    \/ FinishWithLinks
    \/ Signal
    \/ QuitReceived

SpecLinks == InitLinks /\ [][NextLinks]_vars

-----------------------------------------------------------------------------
(* A direct call MergeCrawlStats(statsA, statsB) *)

CountMaps ==
    {NilMap} \cup
    {[isNil |-> FALSE, kv |-> f] :
        f \in UNION {[D -> 0..MaxCount] : D \in SUBSET {StatusOK}}} \cup
    {[isNil |-> FALSE, kv |-> f @@ (404 :> 1)] :
        f \in UNION {[D -> 0..MaxCount] : D \in SUBSET {StatusOK}}}

Non200Lists ==
    {<<>>, <<NewCrawlResult("h/a", 0, 404)>>,
     <<NewCrawlResult("h/b", 1, 404)>>}

StatsOperands ==
    [Total : 0..1, StatusCodes : CountMaps, Average200Time : 0..MaxAverage,
     Max200Time : 0..MaxTime, Non200Urls : Non200Lists]

InitMerge ==
    /\ pc = "merge"
    /\ statsA \in StatsOperands
    /\ statsB \in StatsOperands
    /\ merged = ZeroStats
    /\ urls = <<>>
    /\ config = [Throttle |-> DefaultThrottle,
                 HTTP |-> [ParseLinks |-> FALSE],
                 Links |-> [CrawlExternalLinks |-> FALSE,
                            CrawlImages |-> FALSE,
                            CrawlHyperlinks |-> FALSE]]
    /\ NothingCrawled

\* The call returns its result.
MergeReturns ==
    /\ pc = "merge"
    /\ ~MergePanics(statsA, statsB)
    /\ merged' = MergeCrawlStats(statsA, statsB)
    /\ pc' = "merged"
    /\ UNCHANGED <<statsA, statsB>>
    /\ UNCHANGED crawlVars

\* The call panics: integer divide by zero.
MergeDividesByZero ==
    /\ pc = "merge"
    /\ MergePanics(statsA, statsB)
    /\ pc' = "mergePanic"
    /\ UNCHANGED mergeVars
    /\ UNCHANGED crawlVars

NextMerge ==
    \/ MergeReturns
    \/ MergeDividesByZero

SpecMerge == InitMerge /\ [][NextMerge]_vars

-----------------------------------------------------------------------------
(* The crawl and the direct merge call together *)

InitAll == Init \/ InitMerge

NextAll == Next \/ NextMerge

SpecAll == InitAll /\ [][NextAll]_vars

-----------------------------------------------------------------------------
(* The crawl with its goroutine and a fetcher that go on *)

\* What decides whether the crawl goes on is the number of outcomes, the
\* links they carry and the notifications: the fetcher of this specification
\* varies the links only.
NextFair ==
    \/ AsyncCrawlStart
    \/ ReceiveResult({StatusOK}, {<<>>}, FewLinks)
    \/ FinishWithoutLinks
    \/ CrawlLinksStart
    \/ FinishWithLinks
    \/ Signal
    \/ QuitReceived

\* The goroutine that called AsyncCrawl takes the steps it can take, and the
\* fetcher streams an outcome as long as it has a URL to attempt and has not
\* observed quit.  Nothing is assumed of the notifications or of the
\* handlers' sends.
Fairness ==
    /\ WF_vars(AsyncCrawlStart)
    /\ WF_vars(ReceiveResult({StatusOK}, {<<>>}, FewLinks))
    /\ WF_vars(FinishWithoutLinks)
    /\ WF_vars(CrawlLinksStart)
    /\ WF_vars(FinishWithLinks)

FairSpec == InitLinks /\ [][NextFair]_vars /\ Fairness

-----------------------------------------------------------------------------
(* Two crawlUrls passes that receive the same outcomes in two orders *)

\* What the fetcher can stream for one URL when no link is parsed.
Outcomes ==
    [URL : SeedURLs, StatusCode : StatusCodeValues, Result : ResultValues,
     Links : {<<>>}]

Occurrences(rs, x) == Cardinality({i \in DOMAIN rs : rs[i] = x})

\* Both passes are at the head of their loop, nothing received yet.
InitOrders ==
    /\ pc = "orders"
    /\ urls = <<>>
    /\ config = [Throttle |-> DefaultThrottle,
                 HTTP |-> [ParseLinks |-> FALSE],
                 Links |-> [CrawlExternalLinks |-> FALSE,
                            CrawlImages |-> FALSE,
                            CrawlHyperlinks |-> FALSE]]
    /\ results = <<>>
    /\ stats = FreshStats
    /\ server200TimeSum = 0
    /\ linksResults = <<>>
    /\ linksStats = FreshStats
    /\ linksServer200TimeSum = 0
    /\ stopped = FALSE
    /\ err = ErrNil
    /\ linkedUrlsSet = <<>>
    /\ linkedUrls = <<>>
    /\ calls = <<>>
    /\ pending = {}
    /\ quitSeen = FALSE
    /\ sent = [p \in Passes |-> <<>>]
    /\ handler = [p \in Passes |-> "none"]
    /\ fired = [p \in Passes |-> 0]
    /\ signals = 0
    /\ NoMerge

\* One iteration of the loop of the first pass: any outcome arrives.
FirstOrderReceives ==
    /\ pc = "orders"
    /\ sent[2] = <<>>
    /\ Len(sent[1]) < MaxOutcomes
    /\ \E result \in Outcomes :
          /\ sent' = [sent EXCEPT ![1] = Append(@, result)]
          /\ stats' = UpdatedStats(result, stats)
          /\ server200TimeSum' = UpdatedTimeSum(result, server200TimeSum)
          /\ results' = Append(results, result)
    /\ UNCHANGED <<pc, urls, config, stopped, err, linkedUrlsSet, linkedUrls,
                   linksResults, linksStats, linksServer200TimeSum, calls,
                   pending, quitSeen, handler, fired, signals>>
    /\ UNCHANGED mergeVars

\* One iteration of the loop of the second pass: an outcome of the first
\* pass that the second has received fewer times arrives.
SecondOrderReceives ==
    /\ pc = "orders"
    /\ \E result \in Range(sent[1]) :
          /\ Occurrences(sent[2], result) < Occurrences(sent[1], result)
          /\ sent' = [sent EXCEPT ![2] = Append(@, result)]
          /\ linksStats' = UpdatedStats(result, linksStats)
          /\ linksServer200TimeSum' =
                 UpdatedTimeSum(result, linksServer200TimeSum)
          /\ linksResults' = Append(linksResults, result)
    /\ UNCHANGED <<pc, urls, config, results, stats, server200TimeSum,
                   stopped, err, linkedUrlsSet, linkedUrls, calls, pending,
                   quitSeen, handler, fired, signals>>
    /\ UNCHANGED mergeVars

NextOrders ==
    \/ FirstOrderReceives
    \/ SecondOrderReceives

SpecOrders == InitOrders /\ [][NextOrders]_vars

-----------------------------------------------------------------------------
(* What an observer of the fetcher's streams counts *)

AllSent == sent[1] \o sent[2]

RECURSIVE Count200(_)
Count200(rs) ==
    IF rs = <<>> THEN 0
    ELSE (IF Head(rs).StatusCode = StatusOK THEN 1 ELSE 0) + Count200(Tail(rs))

RECURSIVE Sum200(_)
Sum200(rs) ==
    IF rs = <<>> THEN 0
    ELSE (IF Head(rs).StatusCode = StatusOK THEN ServerTime(Head(rs)) ELSE 0)
         + Sum200(Tail(rs))

Times200(rs) ==
    {ServerTime(rs[i]) : i \in {j \in DOMAIN rs : rs[j].StatusCode = StatusOK}}

SetMax(S) == IF S = {} THEN 0 ELSE CHOOSE m \in S : \A x \in S : x <= m

Returned == pc = "done"

-----------------------------------------------------------------------------
(* Claims *)

\* C1: when AsyncCrawl returns, the error is the "nothing crawled" one
\* exactly when no outcome was streamed in either phase, the "partial
\* failure" one exactly when some outcome was streamed and not all of them
\* were 200, and nil exactly when some outcome was streamed and all were 200;
\* the returned stats count every outcome of both phases.
C1_ErrorByTotals ==
    Returned =>
        /\ stats.Total = Len(AllSent)
        /\ MapGet(stats.StatusCodes, StatusOK) = Count200(AllSent)
        /\ Len(stats.Non200Urls) = Len(AllSent) - Count200(AllSent)
        /\ (err = ErrNoURLCrawled) <=> (Len(AllSent) = 0)
        /\ (err = ErrNon200) <=>
               (Len(AllSent) > 0 /\ Len(AllSent) # Count200(AllSent))
        /\ (err = ErrNil) <=>
               (Len(AllSent) > 0 /\ Len(AllSent) = Count200(AllSent))

C1_Witness ==
    /\ Returned
    /\ err = ErrNon200
    /\ Count200(sent[1]) > 0
    /\ Len(sent[2]) > Count200(sent[2])

TotalIsSum(st) == st.Total = MapSum(st.StatusCodes)

\* C2: Total is the sum of the values of StatusCodes in the stats of both
\* passes at every step, in the stats AsyncCrawl returns, and in the result
\* of a merge whose two operands satisfy it.
C2_TotalIsSumOfStatusCodes ==
    /\ TotalIsSum(stats)
    /\ TotalIsSum(linksStats)
    /\ (pc = "merged" /\ TotalIsSum(statsA) /\ TotalIsSum(statsB))
           => TotalIsSum(merged)

C2_Witness ==
    /\ Returned
    /\ Len(sent[1]) > 0
    /\ Len(sent[2]) > 0
    /\ DOMAIN stats.StatusCodes.kv = StatusCodeValues

HaltedEarly ==
    \E p \in DOMAIN calls :
        /\ fired[p] > 0
        /\ Len(sent[p]) < Len(calls[p].urls)

\* C3 (as claimed): the returned "stopped" is true whenever an interrupt
\* fired the token and the fetcher closed its stream before attempting all
\* URLs, and false when no interrupt occurred.
C3_StoppedTellsCancellation ==
    Returned =>
        /\ HaltedEarly => stopped
        /\ (signals = 0) => ~stopped

ClaimedAccepted(link) ==
    /\ ~(link.IsExternal /\ ~config.Links.CrawlExternalLinks)
    /\ ~(link.Type = Hyperlink /\ ~config.Links.CrawlHyperlinks)
    /\ ~(link.Type = Image /\ ~config.Links.CrawlImages)

AcceptedTargets ==
    UNION {{URLString(results[r].Links[i].TargetURL) :
               i \in {j \in DOMAIN results[r].Links :
                         ClaimedAccepted(results[r].Links[j])}} :
           r \in DOMAIN results}

NoDuplicates(seq) ==
    \A i, j \in DOMAIN seq : seq[i] = seq[j] => i = j

\* C4: the URL list of the second fetch pass has no duplicate and is, as a
\* set, the targets of the links of first-pass results that the three flags
\* let through, minus the seed URLs; no seed URL is fetched in the second
\* pass.
C4_SecondPassUrls ==
    Len(calls) = 2 =>
        /\ NoDuplicates(calls[2].urls)
        /\ Range(calls[2].urls) = AcceptedTargets \ Range(urls)
        /\ \A i \in DOMAIN sent[2] : sent[2][i].URL \notin Range(urls)

C4_Witness ==
    /\ Returned
    /\ Len(sent[2]) > 0
    /\ AcceptedTargets \cap Range(urls) # {}

\* C5: crawlUrls, hence the fetcher, is called once when the three flags are
\* false and twice otherwise, never more; the first call has ParseLinks
\* equal to the OR of the flags, the second has ParseLinks and the three
\* flags false.
C5_NoThirdHop ==
    /\ Len(calls) <= 2
    /\ Len(calls) >= 1 =>
           calls[1].config.HTTP.ParseLinks =
               (config.Links.CrawlExternalLinks \/ config.Links.CrawlHyperlinks
                \/ config.Links.CrawlImages)
    /\ Len(calls) = 2 =>
           /\ ~calls[2].config.HTTP.ParseLinks
           /\ ~calls[2].config.Links.CrawlExternalLinks
           /\ ~calls[2].config.Links.CrawlHyperlinks
           /\ ~calls[2].config.Links.CrawlImages
    /\ Returned =>
           Len(calls) = IF ~config.Links.CrawlExternalLinks
                           /\ ~config.Links.CrawlHyperlinks
                           /\ ~config.Links.CrawlImages
                        THEN 1 ELSE 2

C5_Witness ==
    /\ Returned
    /\ Len(calls) = 2
    /\ Len(sent[2]) > 0
    /\ \E i \in DOMAIN sent[1] : sent[1][i].Links # <<>>

CountKeys == StatusCodeValues \cup {500}

KeysOf(m) == IF m.isNil THEN {} ELSE DOMAIN m.kv

\* C6: a merge that returns has Total = a.Total + b.Total, Max200Time the
\* larger of the two, StatusCodes the key-wise sum of the two maps (an
\* absent key or a nil map counting as 0) and Non200Urls a's list followed
\* by b's.
C6_MergeFields ==
    pc = "merged" =>
        /\ merged.Total = statsA.Total + statsB.Total
        /\ merged.Max200Time >= statsA.Max200Time
        /\ merged.Max200Time >= statsB.Max200Time
        /\ merged.Max200Time \in {statsA.Max200Time, statsB.Max200Time}
        /\ ~merged.StatusCodes.isNil
        /\ DOMAIN merged.StatusCodes.kv =
               KeysOf(statsA.StatusCodes) \cup KeysOf(statsB.StatusCodes)
        /\ \A k \in CountKeys :
               MapGet(merged.StatusCodes, k) =
                   MapGet(statsA.StatusCodes, k) + MapGet(statsB.StatusCodes, k)
        /\ Len(merged.Non200Urls) =
               Len(statsA.Non200Urls) + Len(statsB.Non200Urls)
        /\ \A i \in DOMAIN statsA.Non200Urls :
               merged.Non200Urls[i] = statsA.Non200Urls[i]
        /\ \A i \in DOMAIN statsB.Non200Urls :
               merged.Non200Urls[Len(statsA.Non200Urls) + i] =
                   statsB.Non200Urls[i]

C6_Witness ==
    /\ pc = "merged"
    /\ statsA.StatusCodes.isNil
    /\ MapGet(statsB.StatusCodes, StatusOK) > 0
    /\ statsA.Non200Urls # <<>>
    /\ statsB.Non200Urls # <<>>
    /\ statsA.Non200Urls # statsB.Non200Urls
    /\ statsA.Max200Time > statsB.Max200Time

BothCountsZero ==
    /\ MapGet(statsA.StatusCodes, StatusOK) = 0
    /\ MapGet(statsB.StatusCodes, StatusOK) = 0

\* C7 (as claimed): a merge of two stats whose 200-counts are both zero does
\* not fail with a division by zero and returns Average200Time = 0.
C7_NoDivisionByZero ==
    (pc \in {"merged", "mergePanic"} /\ BothCountsZero) =>
        /\ pc = "merged"
        /\ merged.Average200Time = 0

Weighted200ns ==
    statsA.Average200Time * MapGet(statsA.StatusCodes, StatusOK)
    + statsB.Average200Time * MapGet(statsB.StatusCodes, StatusOK)

Merged200 ==
    MapGet(statsA.StatusCodes, StatusOK) + MapGet(statsB.StatusCodes, StatusOK)

\* C8: a merge that returns with an operand of nonzero average has
\* Average200Time = (a.Average200Time*a.StatusCodes[200] +
\* b.Average200Time*b.StatusCodes[200]) / (a.StatusCodes[200] +
\* b.StatusCodes[200]), an integer division; when exactly one operand has a
\* zero 200-count it is the other operand's average, and when both averages
\* are zero it is zero.
C8_WeightedAverage ==
    pc = "merged" =>
        /\ (statsA.Average200Time # 0 \/ statsB.Average200Time # 0) =>
               /\ Merged200 > 0
               /\ merged.Average200Time * Merged200 <= Weighted200ns
               /\ Weighted200ns < (merged.Average200Time + 1) * Merged200
        /\ (MapGet(statsA.StatusCodes, StatusOK) = 0
            /\ MapGet(statsB.StatusCodes, StatusOK) > 0) =>
               merged.Average200Time = statsB.Average200Time
        /\ (MapGet(statsB.StatusCodes, StatusOK) = 0
            /\ MapGet(statsA.StatusCodes, StatusOK) > 0) =>
               merged.Average200Time = statsA.Average200Time
        /\ (statsA.Average200Time = 0 /\ statsB.Average200Time = 0) =>
               merged.Average200Time = 0

C8_Witness ==
    /\ pc = "merged"
    /\ statsA.Average200Time # 0
    /\ statsB.Average200Time # 0
    /\ statsA.Average200Time # statsB.Average200Time
    /\ MapGet(statsA.StatusCodes, StatusOK) # MapGet(statsB.StatusCodes, StatusOK)
    /\ merged.Average200Time * Merged200 # Weighted200ns

\* C9: a merge that returns agrees with the merge of the swapped operands on
\* Total, StatusCodes, Average200Time and Max200Time, and the swapped merge
\* lists b's Non200Urls before a's.
C9_MergeCommutes ==
    pc = "merged" =>
        /\ ~MergePanics(statsB, statsA)
        /\ LET swapped == MergeCrawlStats(statsB, statsA) IN
           /\ merged.Total = swapped.Total
           /\ merged.StatusCodes = swapped.StatusCodes
           /\ merged.Average200Time = swapped.Average200Time
           /\ merged.Max200Time = swapped.Max200Time
           /\ merged.Non200Urls = statsA.Non200Urls \o statsB.Non200Urls
           /\ swapped.Non200Urls = statsB.Non200Urls \o statsA.Non200Urls

C9_Witness ==
    /\ pc = "merged"
    /\ statsA.Average200Time # statsB.Average200Time
    /\ statsA.Max200Time # statsB.Max200Time
    /\ statsA.StatusCodes # statsB.StatusCodes
    /\ MapGet(statsA.StatusCodes, StatusOK) > MapGet(statsB.StatusCodes, StatusOK)
    /\ MapGet(statsB.StatusCodes, StatusOK) > 0
    /\ statsA.Average200Time > 0
    /\ statsB.Average200Time > 0
    /\ merged.Non200Urls # statsB.Non200Urls \o statsA.Non200Urls

\* C10: the stats AsyncCrawl returns have Average200Time = the sum of the
\* server times of the 200 outcomes of both phases divided (integer
\* division) by their number, zero when there is none, and Max200Time = the
\* largest of these server times, zero when there is none.
C10_AverageAndMax ==
    Returned =>
        /\ stats.Average200Time =
               IF Count200(AllSent) = 0 THEN 0
               ELSE Sum200(AllSent) \div Count200(AllSent)
        /\ stats.Max200Time = SetMax(Times200(AllSent))

C10_Witness ==
    /\ Returned
    /\ Count200(sent[1]) > 0
    /\ Count200(sent[2]) > 0
    /\ Sum200(AllSent) % Count200(AllSent) # 0
    /\ stats.Max200Time > stats.Average200Time

\* The phase-one URLs recorded for target: for every result in scan order,
\* its URL once per accepted link to target.
RECURSIVE Referrers(_, _)
Referrers(rs, target) ==
    IF rs = <<>> THEN <<>>
    ELSE LET page == Head(rs)
             n == Cardinality({j \in DOMAIN page.Links :
                                  /\ ClaimedAccepted(page.Links[j])
                                  /\ URLString(page.Links[j].TargetURL) = target})
         IN [k \in 1..n |-> page.URL] \o Referrers(Tail(rs), target)

Non200Count(rs) == Len(rs) - Count200(rs)

\* C11: in the stats AsyncCrawl returns, every non-200 result of phase two
\* carries as LinkingURLs the phase-one result URLs recorded for its URL, one
\* entry per accepted link in scan order, never empty; every non-200 result
\* of phase one carries no LinkingURLs.
C11_LinkingURLs ==
    Returned =>
        /\ Len(stats.Non200Urls) = Non200Count(sent[1]) + Non200Count(sent[2])
        /\ \A i \in DOMAIN stats.Non200Urls :
              IF i <= Non200Count(sent[1])
              THEN stats.Non200Urls[i].LinkingURLs = <<>>
              ELSE /\ stats.Non200Urls[i].LinkingURLs =
                          Referrers(results, stats.Non200Urls[i].URL)
                   /\ stats.Non200Urls[i].LinkingURLs # <<>>
                   /\ stats.Non200Urls[i].URL \in Range(calls[2].urls)

C11_Witness ==
    /\ Returned
    /\ Non200Count(sent[1]) > 0
    /\ \E i \in DOMAIN stats.Non200Urls :
          Len(stats.Non200Urls[i].LinkingURLs) = 2

\* C12: every call of crawlUrls, hence of the fetcher, carries a throttle of
\* at least 1: AsyncCrawl replaces a configured throttle of 0 or less by 1
\* and goes on without an error, passes a positive one unchanged, and the
\* second call carries the throttle of the first.
C12_ThrottleAtLeastOne ==
    [][/\ \A i \in DOMAIN calls' : calls'[i].config.Throttle >= 1
       /\ (pc = "start" /\ pc' # "start") =>
              /\ pc' = "crawl1"
              /\ err' = ErrNil
              /\ Len(calls') = 1
              /\ config.Throttle <= 0 => calls'[1].config.Throttle = 1
              /\ config.Throttle > 0 =>
                     calls'[1].config.Throttle = config.Throttle
       /\ Len(calls') = 2 =>
              calls'[2].config.Throttle = calls'[1].config.Throttle]_vars

C12_Witness ==
    /\ Returned
    /\ Len(calls) = 2
    /\ Len(sent[2]) > 0
    /\ calls[2].config.Throttle = DefaultThrottle

\* C13: the token of a crawlUrls call fires at most once, however many
\* notifications arrive: the number of values ever sent on its stop channel
\* is 1 when its goroutine has completed its send and 0 otherwise, and 0 as
\* long as no notification has arrived.
C13_FiresAtMostOnce ==
    \A p \in Passes :
        /\ fired[p] <= 1
        /\ fired[p] = IF handler[p] = "done" THEN 1 ELSE 0
        /\ signals = 0 => fired[p] = 0

C13_Witness ==
    /\ pc = "crawl1"
    /\ signals >= 2
    /\ fired[1] = 1

\* The non-200 outcomes of a stream, in arrival order, as updateCrawlStats
\* lists them.
RECURSIVE Non200Of(_)
Non200Of(rs) ==
    IF rs = <<>> THEN <<>>
    ELSE (IF Head(rs).StatusCode # StatusOK
          THEN <<[URL |-> Head(rs).URL, StatusCode |-> Head(rs).StatusCode,
                  Time |-> ServerTime(Head(rs))]>>
          ELSE <<>>) \o Non200Of(Tail(rs))

Listed(st) ==
    [i \in DOMAIN st.Non200Urls |->
        [URL |-> st.Non200Urls[i].URL,
         StatusCode |-> st.Non200Urls[i].StatusCode,
         Time |-> st.Non200Urls[i].Time]]

\* C14: in each pass every outcome received is folded once and appended
\* once, in arrival order: during the pass and when crawlUrls has returned,
\* its results are the outcomes streamed, in the order streamed, Total is
\* their number, and Non200Urls lists the non-200 ones in arrival order.
C14_FoldedOnceInOrder ==
    /\ pc \in {"crawl1", "crawl2"} =>
           /\ results = sent[1]
           /\ stats.Total = Len(sent[1])
           /\ stats.Total = Len(results)
           /\ Listed(stats) = Non200Of(sent[1])
    /\ pc \in {"crawl2", "done"} =>
           /\ linksResults = sent[2]
           /\ linksStats.Total = Len(sent[2])
           /\ linksStats.Total = Len(linksResults)
           /\ Listed(linksStats) = Non200Of(sent[2])

C14_Witness ==
    /\ Returned
    /\ Len(sent[2]) = 2
    /\ Non200Count(sent[2]) = 2
    /\ sent[2][1].URL # sent[2][2].URL
    /\ Len(sent[1]) > 0

\* A pass's stats are finalized: with a 200 outcome counted, the average is
\* the pass's success-time sum over its 200-count.
Finalized(st, timeSum) ==
    MapGet(st.StatusCodes, StatusOK) > 0 =>
        st.Average200Time = timeSum \div MapGet(st.StatusCodes, StatusOK)

C16_LinkingURLsDistinct ==
    Returned =>
        \A i \in DOMAIN stats.Non200Urls :
            NoDuplicates(stats.Non200Urls[i].LinkingURLs)

BothOrdersReceived ==
    pc = "orders" /\ Len(sent[2]) = Len(sent[1])

\* C17: two passes that have received the same outcomes, each in its own
\* arrival order, have the same Total, StatusCodes, Max200Time and
\* success-time sum, and Non200Urls with the same entries the same number of
\* times.
C17_OrderIndependent ==
    BothOrdersReceived =>
        /\ stats.Total = linksStats.Total
        /\ stats.StatusCodes = linksStats.StatusCodes
        /\ stats.Max200Time = linksStats.Max200Time
        /\ server200TimeSum = linksServer200TimeSum
        /\ Len(stats.Non200Urls) = Len(linksStats.Non200Urls)
        /\ \A x \in Range(stats.Non200Urls) \cup Range(linksStats.Non200Urls) :
               Occurrences(stats.Non200Urls, x) =
                   Occurrences(linksStats.Non200Urls, x)

C17_Witness ==
    /\ BothOrdersReceived
    /\ sent[1] # sent[2]
    /\ stats.Non200Urls # linksStats.Non200Urls

\* C18 (as claimed): once the token of phase one has fired, phase two is not
\* started or its fetcher is called with a token that has fired, so that a
\* second pass never streams an outcome for every URL of its list.
C18_OneTokenForBothPhases ==
    (fired[1] > 0 /\ Len(calls) = 2) =>
        /\ fired[2] > 0
        /\ calls[2].urls # <<>> => Len(sent[2]) < Len(calls[2].urls)

LeavesLoop(p) ==
    /\ pc = (IF p = 1 THEN "crawl1" ELSE "crawl2")
    /\ pc' # pc

\* C19: with a fetcher that streams an outcome for every URL until it has
\* observed quit and closes its stream then, AsyncCrawl returns in every
\* interleaving of outcomes and notifications, and neither pass leaves its
\* loop before the fetcher has closed the stream.
C19_Terminates ==
    /\ <>Returned
    /\ [][\A p \in Passes : LeavesLoop(p) => StreamClosed]_vars

C19_Witness ==
    /\ Returned
    /\ Len(calls) = 2
    /\ fired[1] = 1
    /\ fired[2] = 1
    /\ Len(sent[2]) < Len(calls[2].urls)

\* C20 (as claimed): no handler goroutine stays blocked in its send.  Once
\* AsyncCrawl has returned, both fetchers have closed their streams and
\* nothing receives from a stop channel any more, so a handler that is in its
\* send then stays there forever: the claim says there is none.
C20_NoHandlerBlocked ==
    Returned => \A p \in Passes : handler[p] # "sending"

====
